---------------------------- MODULE Spec2Model ----------------------------
(***************************************************************************)
(* A model of the PureLogic schema compiler: DatabaseSchemaBuilder         *)
(* (database_schema_builder.py), the schema types (types.py / pl_types.py) *)
(* and PostgreSqlBuilder (sql_builder.py).                                 *)
(*                                                                         *)
(* Text is a sequence of atoms.  An atom is an indivisible piece of a      *)
(* string: a run of word characters ("role", "pk", "10", "_1"), a run of   *)
(* whitespace (" "), or one of the punctuation marks the grammars look at  *)
(* ("$", ".", "?", "!", "=", ":", "(", ")", ",", "--").  The string is the *)
(* concatenation of its atoms.  Two word atoms are adjacent only in a rule *)
(* name with a suffix ("$", "pk", "_1").                                   *)
(*                                                                         *)
(* Python objects are shared by reference.  Every Table object ever built  *)
(* by _parse_table lives in `heap`; `tables` (self._tables) holds heap     *)
(* ids.  A ForeignKey names its containing Table by heap id and its Field  *)
(* by the index in that Table's field list, so that fk.field.type = ...    *)
(* writes the Field that the Table holds.                                  *)
(***************************************************************************)
EXTENDS Integers, Sequences, FiniteSets, TLC

\* ------------------------------------------------------------------ bounds

\* Table objects one builder may create over its lifetime.
MaxTables == 3
\* finalize() calls one builder may see.
MaxFinalize == 2

\* ------------------------------------------------------------- atoms, text

Punct == {" ", "$", ".", "?", "!", "=", ":", "(", ")", ",", "--", "'"}

\* \w+ : a run of word characters
IsWord(a) == a \notin Punct

\* \d+ : a run of digits
IsDigits(a) == a \in {"0", "1", "2", "10", "16"}

\* \s : whitespace
IsSpace(a) == a = " "

\* _ \w* : the suffix of a rule name
IsSuffix(a) == a \in {"_", "_1", "_2", "_ab"}

\* Optional[str]
None == [is_none |-> TRUE, s |-> <<>>]

Some(s) == [is_none |-> FALSE, s |-> s]

\* the truth value Python gives an Optional[str]
Truthy(o) == ~o.is_none /\ o.s # <<>>

\* s[i:], 1-based
From(s, i) == SubSeq(s, i, Len(s))

\* the index after the whitespace that starts at i (\s*)
RECURSIVE SkipSpace(_, _)
SkipSpace(s, i) ==
    IF i <= Len(s) /\ IsSpace(s[i]) THEN SkipSpace(s, i + 1) ELSE i

\* the index of the last atom before the whitespace that ends at i
RECURSIVE SkipSpaceBack(_, _)
SkipSpaceBack(s, i) ==
    IF i >= 1 /\ IsSpace(s[i]) THEN SkipSpaceBack(s, i - 1) ELSE i

\* str.strip()
Strip(s) == SubSeq(s, SkipSpace(s, 1), SkipSpaceBack(s, Len(s)))

\* the index of the first atom a of s at or after i with a = x, 0 if none
RECURSIVE Find(_, _, _)
Find(s, x, i) ==
    IF i > Len(s) THEN 0
    ELSE IF s[i] = x THEN i
    ELSE Find(s, x, i + 1)

\* Table.full_name: f'{self.pg_schema}.{self.name}'
full_name(t) == <<t.pg_schema, ".", t.name>>

\* ----------------------------------------------------------------- errors

NoError == [kind |-> "none", args |-> <<>>]

\* raise ValueError(message): `kind` is the message's template and `args`
\* the values formatted into it, in order
ValueError(kind, args) == [kind |-> kind, args |-> args]

\* UNIQUENESS_TEXT_TO_TYPE; the key None is written "" here
UNIQUENESS_TEXT_TO_TYPE(u) ==
    CASE u = "pk" -> "PRIMARY_KEY"
      [] u = "uq" -> "UNIQUE"
      [] u = "uq!" -> "STRICT_UNIQUE"
      [] OTHER -> "NOT_UNIQUE"


\* ------------------------------------------------------------- the grammars

NoMatch == [ok |-> FALSE]

\* TABLE_PATTERN under re.match (anchored at the start only):
\* (?: (?P<schema> \w+ ) \. )? (?P<table> \w+ )
TABLE_PATTERN(s) ==
    IF Len(s) >= 3 /\ IsWord(s[1]) /\ s[2] = "." /\ IsWord(s[3])
    THEN [ok |-> TRUE, schema |-> Some(<<s[1]>>), table |-> s[3]]
    ELSE IF Len(s) >= 1 /\ IsWord(s[1])
    THEN [ok |-> TRUE, schema |-> None, table |-> s[1]]
    ELSE NoMatch

\* the optional suffix of a rule name and the end of the name: (?: _ \w* )? $
RuleNameEnds(s, i) ==
    \/ i = Len(s) + 1
    \/ i = Len(s) /\ IsSuffix(s[i])

\* UNIQUENESS_FIELD_PATTERN under re.fullmatch:
\* \$ (?P<uniqueness> pk | uq! | uq ) (?: _ \w* )?
UNIQUENESS_FIELD_PATTERN(s) ==
    IF Len(s) >= 2 /\ s[1] = "$" /\ s[2] = "pk" /\ RuleNameEnds(s, 3)
    THEN [ok |-> TRUE, uniqueness |-> "pk"]
    ELSE IF Len(s) >= 3 /\ s[1] = "$" /\ s[2] = "uq" /\ s[3] = "!" /\ RuleNameEnds(s, 4)
    THEN [ok |-> TRUE, uniqueness |-> "uq!"]
    ELSE IF Len(s) >= 2 /\ s[1] = "$" /\ s[2] = "uq" /\ RuleNameEnds(s, 3)
    THEN [ok |-> TRUE, uniqueness |-> "uq"]
    ELSE NoMatch

\* CHECK_FIELD_PATTERN under re.fullmatch: \$ check (?: _ \w* )?
CHECK_FIELD_PATTERN(s) ==
    Len(s) >= 2 /\ s[1] = "$" /\ s[2] = "check" /\ RuleNameEnds(s, 3)

\* COMMENT_PATTERN under re.search: -- (?P<comment> .* ); `start` is the
\* index of the match, `comment` the group
COMMENT_PATTERN(s) ==
    LET at == Find(s, "--", 1)
    IN  IF at = 0 THEN NoMatch
        ELSE [ok |-> TRUE, start |-> at, comment |-> From(s, at + 1)]

\* (?: (?P<uniqueness> pk | uq! | uq ) \s+ ) at the start of s; `next` is
\* the index after it
UniquenessPrefix(s) ==
    IF Len(s) >= 2 /\ s[1] = "pk" /\ IsSpace(s[2])
    THEN [ok |-> TRUE, uniqueness |-> "pk", next |-> SkipSpace(s, 2)]
    ELSE IF Len(s) >= 3 /\ s[1] = "uq" /\ s[2] = "!" /\ IsSpace(s[3])
    THEN [ok |-> TRUE, uniqueness |-> "uq!", next |-> SkipSpace(s, 3)]
    ELSE IF Len(s) >= 2 /\ s[1] = "uq" /\ IsSpace(s[2])
    THEN [ok |-> TRUE, uniqueness |-> "uq", next |-> SkipSpace(s, 2)]
    ELSE NoMatch

\* \d+ (?: \s* , \s* \d+ )* \s* \) from i, where s[i] is the first number:
\* the index after the closing parenthesis, 0 if there is no match
RECURSIVE PrecisionList(_, _)
PrecisionList(s, i) ==
    IF ~(i <= Len(s) /\ IsDigits(s[i])) THEN 0
    ELSE LET k == SkipSpace(s, i + 1)
         IN  IF k > Len(s) THEN 0
             ELSE IF s[k] = ")" THEN k + 1
             ELSE IF s[k] = "," THEN PrecisionList(s, SkipSpace(s, k + 1))
             ELSE 0

\* \w+ (?: \( \s* \d+ (?: \s* , \s* \d+ )* \s* \) )? from i: the index after
\* the type, 0 if there is no match
TypeEnd(s, i) ==
    IF ~(i <= Len(s) /\ IsWord(s[i])) THEN 0
    ELSE IF i + 1 <= Len(s) /\ s[i + 1] = "("
    THEN PrecisionList(s, SkipSpace(s, i + 2))
    ELSE i + 1

\* (?P<is_computed> : )? = \s* (?P<default> .* ) \s* $ from j
DefaultFrom(s, j) ==
    IF j + 1 <= Len(s) /\ s[j] = ":" /\ s[j + 1] = "="
    THEN [ok |-> TRUE, is_computed |-> TRUE,
          default |-> Some(From(s, SkipSpace(s, j + 2)))]
    ELSE IF j <= Len(s) /\ s[j] = "="
    THEN [ok |-> TRUE, is_computed |-> FALSE,
          default |-> Some(From(s, SkipSpace(s, j + 1)))]
    ELSE NoMatch

\* (?: \s* (?P<is_computed> : )? = \s* (?P<default> .* ) \s* )? $ from i
DefaultTail(s, i) ==
    IF i = Len(s) + 1
    THEN [ok |-> TRUE, is_computed |-> FALSE, default |-> None]
    ELSE DefaultFrom(s, SkipSpace(s, i))

\* the match of FIELD_PATTERN whose type is s[i..t-1], whose is_optional
\* group matched iff q, and whose tail matched as d
FieldMatch(s, i, u, t, q, d) ==
    IF ~d.ok THEN NoMatch
    ELSE [ok |-> TRUE, uniqueness |-> u,
          type |-> SubSeq(s, i, t - 1), is_optional |-> q,
          is_computed |-> d.is_computed, default |-> d.default]

\* FIELD_PATTERN after the type, which ends before t (0: no type)
FieldAfterType(s, i, u, t) ==
    IF t = 0 THEN NoMatch
    ELSE IF t <= Len(s) /\ s[t] = "?"
    THEN FieldMatch(s, i, u, t, TRUE, DefaultTail(s, t + 1))
    ELSE FieldMatch(s, i, u, t, FALSE, DefaultTail(s, t))

\* FIELD_PATTERN from the type on, the uniqueness group being u
FieldFromType(s, i, u) == FieldAfterType(s, i, u, TypeEnd(s, i))

\* the first of two alternatives that matches
OrElse(m, n) == IF m.ok THEN m ELSE n

\* FIELD_PATTERN with the uniqueness group matched as p
FieldAfterPrefix(s, p) ==
    IF p.ok THEN FieldFromType(s, p.next, p.uniqueness) ELSE NoMatch

\* FIELD_PATTERN under re.fullmatch; the match with the uniqueness group is
\* tried first:
\* (?: (?P<uniqueness> pk | uq! | uq ) \s+ )?
\* (?P<type> \w+ (?: \( \s* \d+ (?: \s* , \s* \d+ )* \s* \) )? )
\* (?P<is_optional> \? )?
\* (?: \s* (?P<is_computed> : )? = \s* (?P<default> .* ) \s* )?
FIELD_PATTERN(s) ==
    OrElse(FieldAfterPrefix(s, UniquenessPrefix(s)), FieldFromType(s, 1, ""))

\* FOREIGN_KEY_PATTERN from the table name s[t] on, the schema group being
\* `schema`
ForeignKeyTable(s, u, schema, t) ==
    IF ~(t <= Len(s) /\ IsWord(s[t])) THEN NoMatch
    ELSE IF ~(\/ t = Len(s)
              \/ t + 1 = Len(s) /\ s[t + 1] \in {"?", "!"}) THEN NoMatch
    ELSE [ok |-> TRUE, uniqueness |-> u, schema |-> schema, table |-> s[t],
          is_optional |-> t + 1 = Len(s) /\ s[t + 1] = "?",
          is_cascade |-> t + 1 = Len(s) /\ s[t + 1] = "!"]

\* FOREIGN_KEY_PATTERN from the target at j on:
\* (?: (?P<schema> \w+ ) \. )? (?P<table> \w+ )
\* (?: (?P<is_optional> \? ) | (?P<is_cascade> ! ) )? $
ForeignKeyTarget(s, u, j) ==
    IF j + 2 <= Len(s) /\ IsWord(s[j]) /\ s[j + 1] = "." /\ IsWord(s[j + 2])
    THEN ForeignKeyTable(s, u, Some(<<s[j]>>), j + 2)
    ELSE ForeignKeyTable(s, u, None, j)

\* FOREIGN_KEY_PATTERN from the literal fk on, the uniqueness group being u:
\* fk \s+ ...
ForeignKeyFromFk(s, i, u) ==
    IF ~(i + 1 <= Len(s) /\ s[i] = "fk" /\ IsSpace(s[i + 1])) THEN NoMatch
    ELSE ForeignKeyTarget(s, u, SkipSpace(s, i + 1))

\* FOREIGN_KEY_PATTERN with the uniqueness group matched as p
ForeignKeyAfterPrefix(s, p) ==
    IF p.ok THEN ForeignKeyFromFk(s, p.next, p.uniqueness) ELSE NoMatch

\* FOREIGN_KEY_PATTERN under re.fullmatch
FOREIGN_KEY_PATTERN(s) ==
    OrElse(ForeignKeyAfterPrefix(s, UniquenessPrefix(s)), ForeignKeyFromFk(s, 1, ""))

\* ------------------------------------------------- the builder, functionally

\* The builder's accumulated state as one value b: heap (every Table object
\* built so far), tables (self._tables, heap ids), foreign_keys
\* (self._foreign_keys) and indexes (self._indexes).  An operation yields
\* [b |-> the state it leaves, err |-> NoError or what it raised].

\* table.fields.append(field)
AppendField(b, tid, f) ==
    [b EXCEPT !.heap[tid].fields = Append(@, f)]

\* a call that returned, leaving b
Returned(b) == [b |-> b, err |-> NoError]

\* a call that raised err, leaving b
Raised(b, err) == [b |-> b, err |-> err]

\* what follows a call with result r: the rest of the caller if it returned,
\* its exception if it raised
Then(r, Rest(_)) == IF r.err = NoError THEN Rest(r.b) ELSE r

\* _parse_attribute, a composite-uniqueness rule (lines 24-35)
parse_uniqueness_rule(b, tid, value, uniqueness) ==
    IF ~value.list
    THEN Raised(b, ValueError("bad rule format",
                              <<<<uniqueness>>, full_name(b.heap[tid])>>))
    ELSE Returned([b EXCEPT !.heap[tid].complex_uniqueness =
                      Append(@, [fields |-> value.s,
                                 uniqueness |-> UNIQUENESS_TEXT_TO_TYPE(uniqueness)])])

\* _parse_attribute, a simple field matched as m (lines 54-67)
parse_simple_field(b, tid, name, comment, m) ==
    Returned(AppendField(b, tid,
        [name |-> name,
         uniqueness |-> UNIQUENESS_TEXT_TO_TYPE(m.uniqueness),
         type |-> m.type,
         is_optional |-> m.is_optional,
         is_computed |-> m.is_computed,
         default |-> IF Truthy(m.default) THEN Some(Strip(m.default.s))
                     ELSE m.default,
         comment |-> comment]))

\* the Field of a foreign key matched as m (lines 70-78)
foreign_key_field(name, comment, m) ==
    [name |-> name,
     uniqueness |-> UNIQUENESS_TEXT_TO_TYPE(m.uniqueness),
     type |-> <<>>,
     is_optional |-> m.is_optional,
     is_computed |-> FALSE,
     default |-> None,
     comment |-> comment]

\* the ForeignKey without the cascade action (lines 82-83 left out)
foreign_key_without_cascade(tid, field, m) ==
    [referenced_schema |-> IF Truthy(m.schema) THEN m.schema.s[1] ELSE "public",
     referenced_name |-> m.table,
     referenced_table |-> 0,
     containing_table |-> tid,
     field |-> field,
     on_delete |-> IF m.is_optional THEN "SET_NULL" ELSE "NO_ACTION"]

\* the ForeignKey of a foreign key matched as m, for the field-th Field of
\* the Table tid (lines 82-95)
foreign_key(tid, field, m) ==
    [referenced_schema |-> IF Truthy(m.schema) THEN m.schema.s[1] ELSE "public",
     referenced_name |-> m.table,
     referenced_table |-> 0,
     containing_table |-> tid,
     field |-> field,
     on_delete |-> IF m.is_cascade THEN "CASCADE"
                   ELSE IF m.is_optional THEN "SET_NULL"
                   ELSE "NO_ACTION"]

\* the index of a foreign-key field whatever its uniqueness (the test of
\* the field's uniqueness at line 99 left out)
parse_fk_index_of_any_field(b, add_fk, tid, field) ==
    IF ~add_fk THEN Returned(b)
    ELSE Returned([b EXCEPT !.indexes =
                      Append(@, [table |-> tid, field |-> field.name])])

\* _parse_attribute, the index of a foreign-key field (lines 99-105)
parse_fk_index(b, add_fk, tid, field) ==
    IF ~add_fk \/ field.uniqueness # "NOT_UNIQUE" THEN Returned(b)
    ELSE Returned([b EXCEPT !.indexes =
                      Append(@, [table |-> tid, field |-> field.name])])

\* _parse_attribute, a foreign-key field matched as m (lines 70-107)
parse_foreign_key(b, add_fk, tid, name, comment, m) ==
    parse_fk_index(
        [b EXCEPT !.heap[tid].fields = Append(@, foreign_key_field(name, comment, m)),
                  !.foreign_keys = Append(@,
                      foreign_key(tid, Len(b.heap[tid].fields) + 1, m))],
        add_fk, tid, foreign_key_field(name, comment, m))

\* _parse_attribute from the grammars on (lines 53-109): fm and km are the
\* matches of FIELD_PATTERN and FOREIGN_KEY_PATTERN on the value `text`
parse_matched(b, add_fk, tid, name, comment, text, fm, km) ==
    IF fm.ok THEN parse_simple_field(b, tid, name, comment, fm)
    ELSE IF km.ok THEN parse_foreign_key(b, add_fk, tid, name, comment, km)
    ELSE Raised(b, ValueError("unknown attribute definition", <<name, text>>))

\* _parse_attribute after the comment was split off (lines 53-109)
parse_value(b, add_fk, tid, name, comment, text) ==
    parse_matched(b, add_fk, tid, name, comment, text,
                  FIELD_PATTERN(text), FOREIGN_KEY_PATTERN(text))

\* _parse_attribute from the comment on (lines 47-109), cm being the match
\* of COMMENT_PATTERN on the value s
parse_commented(b, add_fk, tid, name, s, cm) ==
    IF cm.ok
    THEN parse_value(b, add_fk, tid, name, Some(Strip(cm.comment)),
                     Strip(SubSeq(s, 1, cm.start - 1)))
    ELSE parse_value(b, add_fk, tid, name, None, s)

\* _parse_attribute(table, name, value): value is [list |-> is it a native
\* list, s |-> its items or its atoms]
parse_attribute(b, add_fk, tid, name, value) ==
    IF UNIQUENESS_FIELD_PATTERN(name).ok
    THEN parse_uniqueness_rule(b, tid, value,
                               UNIQUENESS_FIELD_PATTERN(name).uniqueness)
    ELSE IF CHECK_FIELD_PATTERN(name)
    THEN Returned([b EXCEPT !.heap[tid].checks = Append(@, value)])
    ELSE IF Len(name) >= 1 /\ name[1] = "$"
    THEN Raised(b, ValueError("unknown rule", <<name, full_name(b.heap[tid])>>))
    ELSE IF ~(Len(name) >= 1 /\ \A i \in 1..Len(name) : IsWord(name[i]))
    THEN Raised(b, ValueError("bad field name", <<name, full_name(b.heap[tid])>>))
    ELSE IF value.list
    THEN Raised(b, [kind |-> "TypeError", args |-> <<>>])
    ELSE parse_commented(b, add_fk, tid, name, value.s, COMMENT_PATTERN(value.s))

\* the loop of _parse_table over attributes.items(), from the i-th on; it
\* ends at the first attribute that raises
RECURSIVE parse_attributes(_, _, _, _, _)
parse_attributes(b, add_fk, tid, attributes, i) ==
    IF i > Len(attributes) THEN Returned(b)
    ELSE Then(parse_attribute(b, add_fk, tid, attributes[i][1], attributes[i][2]),
              LAMBDA b1 : parse_attributes(b1, add_fk, tid, attributes, i + 1))

\* _parse_table(schema, name, attributes)
parse_table(b, add_fk, schema, name, attributes) ==
    Then(parse_attributes(
             [b EXCEPT !.heap = Append(@,
                 [pg_schema |-> schema, name |-> name, fields |-> <<>>,
                  complex_uniqueness |-> <<>>, checks |-> <<>>])],
             add_fk, Len(b.heap) + 1, attributes, 1),
         LAMBDA b1 : Returned([b1 EXCEPT !.tables = Append(@, Len(b.heap) + 1)]))

\* one table of _parse_schema, its key matched by TABLE_PATTERN as `match`
parse_schema_table(b, add_fk, full_table_name, table_data, match) ==
    IF ~match.ok
    THEN Raised(b, ValueError("bad table name", <<full_table_name>>))
    ELSE parse_table(b, add_fk,
                     IF Truthy(match.schema) THEN match.schema.s[1] ELSE "public",
                     match.table, table_data)

\* _parse_schema(markup), from the i-th key of the mapping on; markup is the
\* sequence of the mapping's (key, value) pairs in document order
RECURSIVE parse_schema(_, _, _, _)
parse_schema(b, add_fk, markup, i) ==
    IF i > Len(markup) THEN Returned(b)
    ELSE IF Len(markup[i][1]) >= 1 /\ markup[i][1][1] = "$"
    THEN parse_schema(b, add_fk, markup, i + 1)
    ELSE Then(parse_schema_table(b, add_fk, markup[i][1], markup[i][2],
                                 TABLE_PATTERN(markup[i][1])),
              LAMBDA b1 : parse_schema(b1, add_fk, markup, i + 1))

\* the loop of get_reference_pk over self.fields, from the i-th on; pk is the
\* index of the primary-key field found so far, 0 for None
RECURSIVE reference_pk_scan(_, _, _)
reference_pk_scan(t, i, pk) ==
    IF i > Len(t.fields) THEN
        IF pk = 0
        THEN [ok |-> FALSE, pk |-> 0,
              err |-> ValueError("no pk", <<full_name(t)>>)]
        ELSE [ok |-> TRUE, pk |-> pk, err |-> NoError]
    ELSE IF t.fields[i].uniqueness # "PRIMARY_KEY"
    THEN reference_pk_scan(t, i + 1, pk)
    ELSE IF pk # 0
    THEN [ok |-> FALSE, pk |-> 0,
          err |-> ValueError("more than one pk", <<full_name(t)>>)]
    ELSE reference_pk_scan(t, i + 1, i)

\* get_reference_pk without its check of the composite rules (lines 63-65)
get_reference_pk_ignoring_rules(t) == reference_pk_scan(t, 1, 0)

\* Table.get_reference_pk(): [ok, pk |-> the index of the field returned,
\* err |-> what it raised]
get_reference_pk(t) ==
    IF \E c \in 1..Len(t.complex_uniqueness) :
           t.complex_uniqueness[c].uniqueness = "PRIMARY_KEY"
    THEN [ok |-> FALSE, pk |-> 0,
          err |-> ValueError("more than one pk", <<full_name(t)>>)]
    ELSE reference_pk_scan(t, 1, 0)

\* next(t for t in self._tables if t.pg_schema == schema and t.name == name),
\* from the i-th table on: a heap id, 0 for StopIteration
RECURSIVE find_table(_, _, _, _)
find_table(b, schema, name, i) ==
    IF i > Len(b.tables) THEN 0
    ELSE IF /\ b.heap[b.tables[i]].pg_schema = schema
            /\ b.heap[b.tables[i]].name = name
    THEN b.tables[i]
    ELSE find_table(b, schema, name, i + 1)

RECURSIVE resolve_foreign_keys(_, _)

\* _resolve_foreign_keys, lines 138-141 for the i-th foreign key, whose
\* target is the Table `table` and pk the result of its get_reference_pk()
resolve_link(b, i, table, pk) ==
    IF ~pk.ok THEN [b |-> b, done |-> i - 1, err |-> pk.err]
    ELSE resolve_foreign_keys(
             [b EXCEPT
                !.foreign_keys[i].referenced_table = table,
                !.heap[b.foreign_keys[i].containing_table]
                      .fields[b.foreign_keys[i].field].type =
                    b.heap[table].fields[pk.pk].type],
             i + 1)

\* _resolve_foreign_keys passing over a foreign key whose target is missing
\* instead of raising
resolve_target_lenient(b, i, table) ==
    IF table = 0 THEN resolve_foreign_keys(b, i + 1)
    ELSE resolve_link(b, i, table, get_reference_pk(b.heap[table]))

\* _resolve_foreign_keys, lines 127-141 for the i-th foreign key, `table`
\* being the Table the search found (0: StopIteration)
resolve_target(b, i, table) ==
    IF table = 0
    THEN [b |-> b, done |-> i - 1,
          err |-> ValueError("unresolved foreign key",
                    <<full_name(b.heap[b.foreign_keys[i].containing_table]),
                      <<b.foreign_keys[i].referenced_schema, ".",
                        b.foreign_keys[i].referenced_name>>>>)]
    ELSE resolve_link(b, i, table, get_reference_pk(b.heap[table]))

\* _resolve_foreign_keys(), from the i-th foreign key on; `done` is the
\* number of foreign keys whose link this call wrote
resolve_foreign_keys(b, i) ==
    IF i > Len(b.foreign_keys) THEN [b |-> b, err |-> NoError, done |-> i - 1]
    ELSE resolve_target(b, i,
             find_table(b, b.foreign_keys[i].referenced_schema,
                        b.foreign_keys[i].referenced_name, 1))

\* ------------------------------------------------- the relationship classifier

\* table == other for two Table references (pydantic compares the field
\* values); other may be None (0)
TableEq(b, table, other) ==
    table # 0 /\ other # 0 /\ b.heap[table] = b.heap[other]

\* the code with the weights of the referenced side and of optionality
\* exchanged
connection_code_optional_first(b, table, fk) ==
    LET field == b.heap[fk.containing_table].fields[fk.field]
    IN  (IF field.uniqueness = "NOT_UNIQUE" THEN 4 ELSE 0)
        + (IF TableEq(b, table, fk.referenced_table) THEN 1 ELSE 0)
        + (IF field.is_optional THEN 2 ELSE 0)

\* ConnectType( (fk.field.uniqueness == NOT_UNIQUE) * 4
\*              + (table == fk.referenced_table) * 2 + fk.field.is_optional )
connection_code(b, table, fk) ==
    LET field == b.heap[fk.containing_table].fields[fk.field]
    IN  (IF field.uniqueness = "NOT_UNIQUE" THEN 4 ELSE 0)
        + (IF TableEq(b, table, fk.referenced_table) THEN 2 ELSE 0)
        + (IF field.is_optional THEN 1 ELSE 0)

\* ConnectType
SOME_TO_EVERY == 0
SOME_TO_SOME_LEFT == 1
EVERY_TO_SOME == 2
SOME_TO_SOME_RIGHT == 3
MANY_TO_EVERY == 4
MANY_TO_SOME == 5
EVERY_TO_MANY == 6
SOME_TO_MANY == 7
MANY_TO_MANY == 8

\* CONNECTION_ORDER_TO_SYMBOL[o.value]
CONNECTION_ORDER_TO_SYMBOL(o) ==
    <<"o-", "oo", "-o", "oo", ">-", ">o", "-<", "o<", "><">>[o + 1]

\* the foreign keys the table contains only, those that reference it left
\* out (line 205 without its second operand)
RECURSIVE touching_contained(_, _, _)
touching_contained(b, table, i) ==
    IF i > Len(b.foreign_keys) THEN <<>>
    ELSE IF TableEq(b, b.foreign_keys[i].containing_table, table)
    THEN <<i>> \o touching_contained(b, table, i + 1)
    ELSE touching_contained(b, table, i + 1)

\* [x for x in xs if keep(x)] for the sequence of foreign-key numbers
RECURSIVE touching(_, _, _)
touching(b, table, i) ==
    IF i > Len(b.foreign_keys) THEN <<>>
    ELSE IF \/ TableEq(b, b.foreign_keys[i].containing_table, table)
            \/ TableEq(b, b.foreign_keys[i].referenced_table, table)
    THEN <<i>> \o touching(b, table, i + 1)
    ELSE touching(b, table, i + 1)

\* _is_mid_in_m2m asking for optional foreign keys (MANY_TO_SOME) where the
\* code asks for mandatory ones (line 221)
mid_in_m2m_of_optional(b, table, touch) ==
    IF Len(touch) # 2 THEN [some |-> FALSE, tables |-> <<>>]
    ELSE IF \E k \in 1..2 :
               connection_code(b, table, b.foreign_keys[touch[k]]) # MANY_TO_SOME
    THEN [some |-> FALSE, tables |-> <<>>]
    ELSE [some |-> TRUE,
          tables |-> <<b.foreign_keys[touch[1]].referenced_table,
                       b.foreign_keys[touch[2]].referenced_table>>]

\* _is_mid_in_m2m, lines 208-226, foreign_keys being the numbers of the
\* foreign keys that touch the table
mid_in_m2m(b, table, touch) ==
    IF Len(touch) # 2 THEN [some |-> FALSE, tables |-> <<>>]
    ELSE IF \E k \in 1..2 :
               connection_code(b, table, b.foreign_keys[touch[k]]) # MANY_TO_EVERY
    THEN [some |-> FALSE, tables |-> <<>>]
    ELSE [some |-> TRUE,
          tables |-> <<b.foreign_keys[touch[1]].referenced_table,
                       b.foreign_keys[touch[2]].referenced_table>>]

\* _is_mid_in_m2m(table): [some |-> FALSE] for None, else the pair `tables`
is_mid_in_m2m(b, table) == mid_in_m2m(b, table, touching(b, table, 1))

\* a removal that takes out the first element whatever it is
list_remove_first(b, xs, table, i) ==
    IF i > Len(xs) THEN [ok |-> FALSE, xs |-> xs]
    ELSE [ok |-> TRUE, xs |-> SubSeq(xs, i + 1, Len(xs))]

\* list.remove(x): the list without its first element equal to x;
\* [ok |-> FALSE] for ValueError
RECURSIVE list_remove(_, _, _, _)
list_remove(b, xs, table, i) ==
    IF i > Len(xs) THEN [ok |-> FALSE, xs |-> xs]
    ELSE IF TableEq(b, xs[i], table)
    THEN [ok |-> TRUE, xs |-> SubSeq(xs, 1, i - 1) \o SubSeq(xs, i + 1, Len(xs))]
    ELSE list_remove(b, xs, table, i + 1)

RECURSIVE connections_loop(_, _, _, _)

\* get_connections, lines 264-275: the many-to-many edge through ref_table,
\* rest being m2m_tables after m2m_tables.remove(table)
connection_m2m(b, table, i, connections, ref_table, rest) ==
    IF ~rest.ok THEN [ok |-> FALSE, connections |-> connections]
    ELSE connections_loop(b, table, i + 1,
             Append(connections, <<MANY_TO_MANY, rest.xs[1], ref_table>>))

\* get_connections, lines 261-275, for the i-th foreign key, whose other
\* side is ref_table; m2m is _is_mid_in_m2m(ref_table) for an EVERY_TO_MANY
\* connection
connection_mid(b, table, i, connections, ref_table, connection, m2m) ==
    IF ~m2m.some
    THEN connections_loop(b, table, i + 1,
             Append(connections, <<connection, ref_table, 0>>))
    ELSE connection_m2m(b, table, i, connections, ref_table,
                        list_remove(b, m2m.tables, table, 1))

\* get_connections, lines 255-275, for the i-th foreign key, whose other
\* side is ref_table
connection_of(b, table, i, connections, ref_table, connection) ==
    connection_mid(b, table, i, connections, ref_table, connection,
                   IF connection = EVERY_TO_MANY
                   THEN is_mid_in_m2m(b, ref_table)
                   ELSE [some |-> FALSE, tables |-> <<>>])

\* the loop of get_connections over self._foreign_keys, from the i-th on:
\* [ok, connections |-> the (connection, ref_table, mid_table) triples]
connections_loop(b, table, i, connections) ==
    IF i > Len(b.foreign_keys) THEN [ok |-> TRUE, connections |-> connections]
    ELSE IF TableEq(b, table, b.foreign_keys[i].containing_table)
    THEN connection_of(b, table, i, connections,
                       b.foreign_keys[i].referenced_table,
                       connection_code(b, table, b.foreign_keys[i]))
    ELSE IF TableEq(b, table, b.foreign_keys[i].referenced_table)
    THEN connection_of(b, table, i, connections,
                       b.foreign_keys[i].containing_table,
                       connection_code(b, table, b.foreign_keys[i]))
    ELSE connections_loop(b, table, i + 1, connections)

\* insertion of x into a sequence sorted by the first component, after the
\* elements with an equal key (list.sort is stable)
RECURSIVE insert_sorted(_, _)
insert_sorted(xs, x) ==
    IF xs = <<>> THEN <<x>>
    ELSE IF xs[Len(xs)][1] <= x[1] THEN Append(xs, x)
    ELSE Append(insert_sorted(SubSeq(xs, 1, Len(xs) - 1), x), xs[Len(xs)])

\* connections.sort(key=lambda x: x[0])
RECURSIVE sort_connections(_, _, _)
sort_connections(xs, i, sorted) ==
    IF i > Len(xs) THEN sorted
    ELSE sort_connections(xs, i + 1, insert_sorted(sorted, xs[i]))

\* get_connections, lines 277-282: the sorted triples with their symbols
connection_symbols(sorted) ==
    [k \in 1..Len(sorted) |->
        <<CONNECTION_ORDER_TO_SYMBOL(sorted[k][1]), sorted[k][2], sorted[k][3]>>]

\* get_connections, lines 277-282, r being the result of the loop
connections_result(r) ==
    IF ~r.ok THEN [ok |-> FALSE, connections |-> <<>>]
    ELSE [ok |-> TRUE,
          connections |-> connection_symbols(sort_connections(r.connections, 1, <<>>))]

\* get_connections(table): [ok, connections |-> the (symbol, table,
\* mid table) triples returned]; ok is FALSE when list.remove raised
get_connections(b, table) ==
    connections_result(connections_loop(b, table, 1, <<>>))

\* ------------------------------------------------------------- the emitter

\* sep.join(texts), from the i-th text on
RECURSIVE Join(_, _, _)
Join(texts, sep, i) ==
    IF i > Len(texts) THEN <<>>
    ELSE IF i = Len(texts) THEN texts[i]
    ELSE texts[i] \o <<sep>> \o Join(texts, sep, i + 1)

\* the first r.err # NoError of a sequence of results, NoError if none
RECURSIVE FirstError(_, _)
FirstError(rs, i) ==
    IF i > Len(rs) THEN NoError
    ELSE IF rs[i].err # NoError THEN rs[i].err
    ELSE FirstError(rs, i + 1)

\* the entries of DEFAULT_TYPE_TABLE for the type names of the documents
DEFAULT_TYPE_TABLE ==
    [key \in {"uuid", "int", "int4", "text", "str", "varchar", "numeric"} |->
        CASE key \in {"int", "int4"} -> "int4"
          [] key \in {"text", "str"} -> "text"
          [] key = "numeric" -> "decimal"
          [] OTHER -> key]

\* An emitter configuration: explicit_uniques, explicit_nulls and
\* restrict_types_table, which is "None", "{}" (a mapping with no entries)
\* or "DEFAULT_TYPE_TABLE"
EmitterConfigs ==
    { [explicit_uniques |-> FALSE, explicit_nulls |-> FALSE,
       restrict_types_table |-> "None"],
      [explicit_uniques |-> TRUE, explicit_nulls |-> TRUE,
       restrict_types_table |-> "{}"],
      [explicit_uniques |-> TRUE, explicit_nulls |-> FALSE,
       restrict_types_table |-> "DEFAULT_TYPE_TABLE"] }

\* self._restrict_types_table as a mapping; None has no entries either
restrict_types_table(cfg) ==
    IF cfg.restrict_types_table = "DEFAULT_TYPE_TABLE"
    THEN DEFAULT_TYPE_TABLE ELSE << >>

\* get_drop_schema_sql(schema), validate = True
get_drop_schema_sql(schema) ==
    IF ~IsWord(schema)
    THEN [err |-> ValueError("bad schema name", <<<<schema>>>>), text |-> <<>>]
    ELSE [err |-> NoError,
          text |-> <<"DROP SCHEMA IF EXISTS ", schema, " CASCADE;">>]

\* get_create_schema_sql(schema), validate = True
get_create_schema_sql(schema) ==
    IF ~IsWord(schema)
    THEN [err |-> ValueError("bad schema name", <<<<schema>>>>), text |-> <<>>]
    ELSE [err |-> NoError, text |-> <<"CREATE SCHEMA ", schema, ";">>]

\* get_uniqueness_sql(uniqueness)
get_uniqueness_sql(cfg, uniqueness) ==
    IF uniqueness = "NOT_UNIQUE"
    THEN [err |-> ValueError("no sql for not unique", <<>>), text |-> <<>>]
    ELSE IF uniqueness = "PRIMARY_KEY"
    THEN [err |-> NoError, text |-> <<"PRIMARY KEY">>]
    ELSE [err |-> NoError,
          text |-> Join(<< <<"UNIQUE">> >>
                        \o (IF cfg.explicit_uniques /\ uniqueness = "STRICT_UNIQUE"
                            THEN << <<"NULLS DISTINCT">> >> ELSE <<>>)
                        \o (IF cfg.explicit_uniques /\ uniqueness = "UNIQUE"
                            THEN << <<"NULLS NOT DISTINCT">> >> ELSE <<>>),
                        " ", 1)]

\* get_field_type(field); TYPE_PRECISION_PATTERN is the type of FIELD_PATTERN
get_field_type(cfg, field) ==
    LET table == restrict_types_table(cfg)
    IN  IF cfg.restrict_types_table = "None" \/ DOMAIN table = {}
        THEN [err |-> NoError, text |-> field.type]
        ELSE IF TypeEnd(field.type, 1) # Len(field.type) + 1
        THEN [err |-> ValueError("bad type format", <<field.name>>), text |-> <<>>]
        ELSE IF field.type[1] \notin DOMAIN table
        THEN [err |-> ValueError("unknown type", <<<<field.type[1]>>, field.name>>),
              text |-> <<>>]
        ELSE [err |-> NoError,
              text |-> <<table[field.type[1]]>> \o From(field.type, 2)]

\* a text that was rendered
Text(text) == [err |-> NoError, text |-> text]

\* get_field_sql, lines 94-115, type and uniq being the results of
\* get_field_type and get_uniqueness_sql
field_sql(cfg, field, type, uniq) ==
    IF type.err # NoError THEN type
    ELSE IF uniq.err # NoError THEN uniq
    ELSE Text(Join(
             << field.name, type.text >>
             \o (IF ~field.is_optional THEN << <<"NOT NULL">> >>
                 ELSE IF cfg.explicit_nulls THEN << <<"NULL">> >>
                 ELSE <<>>)
             \o (IF field.uniqueness # "NOT_UNIQUE" THEN <<uniq.text>> ELSE <<>>)
             \o (IF Truthy(field.default) /\ ~field.is_computed
                 THEN << <<"DEFAULT ">> \o field.default.s >> ELSE <<>>)
             \o (IF Truthy(field.default) /\ field.is_computed
                 THEN << <<"GENERATED ALWAYS AS (">> \o field.default.s
                         \o <<") STORED">> >>
                 ELSE <<>>),
             " ", 1))

\* get_field_sql(field)
get_field_sql(cfg, field) ==
    field_sql(cfg, field, get_field_type(cfg, field),
              IF field.uniqueness # "NOT_UNIQUE"
              THEN get_uniqueness_sql(cfg, field.uniqueness)
              ELSE Text(<<>>))

\* get_unique_constraint_sql, uniq being the result of get_uniqueness_sql
unique_constraint_sql(constraint, uniq) ==
    IF uniq.err # NoError THEN uniq
    ELSE Text(uniq.text \o <<" (">>
              \o Join([k \in 1..Len(constraint.fields) |->
                          <<constraint.fields[k]>>], ", ", 1)
              \o <<")">>)

\* get_unique_constraint_sql(constraint)
get_unique_constraint_sql(cfg, constraint) ==
    unique_constraint_sql(constraint,
                          get_uniqueness_sql(cfg, constraint.uniqueness))

\* get_check_constraint_sql(condition)
get_check_constraint_sql(condition) ==
    Text(<<"CHECK (">> \o condition.s \o <<")">>)

\* get_table_sql, lines 144-148, `attributes` being the rendered clauses
table_sql(table, attributes) ==
    IF FirstError(attributes, 1) # NoError
    THEN [err |-> FirstError(attributes, 1), text |-> <<>>]
    ELSE Text(<<"CREATE TABLE ">> \o full_name(table) \o <<" (", "\n">>
              \o Join([k \in 1..Len(attributes) |->
                          <<"    ">> \o attributes[k].text], ",\n", 1)
              \o <<"\n", ");">>)

\* get_table_sql(table)
get_table_sql(cfg, table) ==
    table_sql(table,
        [k \in 1..Len(table.fields) |-> get_field_sql(cfg, table.fields[k])]
        \o [k \in 1..Len(table.complex_uniqueness) |->
               get_unique_constraint_sql(cfg, table.complex_uniqueness[k])]
        \o [k \in 1..Len(table.checks) |->
               get_check_constraint_sql(table.checks[k])])

\* get_field_comment_sql(table, field)
get_field_comment_sql(table, field) ==
    <<"COMMENT ON COLUMN ">> \o full_name(table) \o <<".">> \o field.name
    \o <<" IS '">> \o (IF Truthy(field.comment) THEN field.comment.s ELSE <<>>)
    \o <<"';">>

\* get_foreign_key_sql, lines 156-167, ref_pk being the result of
\* fk.referenced_table.get_reference_pk()
foreign_key_sql(fk, containing, referenced, ref_pk) ==
    IF ~ref_pk.ok THEN [err |-> ref_pk.err, text |-> <<>>]
    ELSE Text(
        Join(<< <<"ALTER TABLE ">> \o full_name(containing)
                \o <<" ", "ADD CONSTRAINT fk_", containing.pg_schema,
                     "_", containing.name, "_">> \o containing.fields[fk.field].name
                \o <<" ", "FOREIGN KEY (">> \o containing.fields[fk.field].name
                \o <<") REFERENCES ">> \o full_name(referenced)
                \o <<" (">> \o referenced.fields[ref_pk.pk].name
                \o <<")">> >>
             \o (IF fk.on_delete = "SET_NULL"
                 THEN << <<"ON DELETE SET NULL">> >>
                 ELSE IF fk.on_delete = "CASCADE"
                 THEN << <<"ON DELETE CASCADE">> >>
                 ELSE <<>>),
             " ", 1)
        \o <<";">>)

\* get_foreign_key_sql(fk)
get_foreign_key_sql(b, fk) ==
    IF fk.referenced_table = 0
    THEN [err |-> [kind |-> "AttributeError", args |-> <<>>], text |-> <<>>]
    ELSE foreign_key_sql(fk, b.heap[fk.containing_table],
                         b.heap[fk.referenced_table],
                         get_reference_pk(b.heap[fk.referenced_table]))

\* get_index_sql(index)
get_index_sql(b, index) ==
    <<"CREATE INDEX ON ">> \o full_name(b.heap[index.table]) \o <<" (">>
    \o index.field \o <<")">>

\* [x for x in xs if keep] as used for the comments of a table: the indexes
\* of the fields with a comment, from the i-th on
RECURSIVE commented_fields(_, _)
commented_fields(table, i) ==
    IF i > Len(table.fields) THEN <<>>
    ELSE IF Truthy(table.fields[i].comment)
    THEN <<i>> \o commented_fields(table, i + 1)
    ELSE commented_fields(table, i + 1)

\* get_db_sql, lines 195-199: the comments of a table, with_comment being
\* the indexes of its fields that have one
table_comments(table, with_comment) ==
    Join([k \in 1..Len(with_comment) |->
             get_field_comment_sql(table, table.fields[with_comment[k]])], "\n", 1)

\* get_db_sql, lines 201-202
comments_statement(comments) ==
    IF comments # <<>> THEN <<Text(comments)>> ELSE <<>>

\* the loop of get_db_sql over self._tables, from the i-th table on: the
\* texts appended to sql_statements
RECURSIVE table_statements(_, _, _, _)
table_statements(b, cfg, schema, i) ==
    IF i > Len(schema.tables) THEN <<>>
    ELSE <<get_table_sql(cfg, b.heap[schema.tables[i]])>>
         \o comments_statement(
                table_comments(b.heap[schema.tables[i]],
                               commented_fields(b.heap[schema.tables[i]], 1)))
         \o table_statements(b, cfg, schema, i + 1)

\* the texts of a sequence of results
Texts(rs) == [k \in 1..Len(rs) |-> rs[k].text]

\* get_db_sql, lines 209-210 and 217-218
optional_statement(text) == IF text # <<>> THEN <<text>> ELSE <<>>

\* get_db_sql with the foreign keys appended before the tables
db_sql_foreign_keys_first(drops, creates, table_texts, fks, indexes) ==
    IF FirstError(drops \o creates \o table_texts \o fks, 1) # NoError
    THEN [err |-> FirstError(drops \o creates \o table_texts \o fks, 1),
          text |-> <<>>]
    ELSE Text(Join(
             << Join(Texts(drops), "\n", 1), Join(Texts(creates), "\n", 1) >>
             \o optional_statement(Join(Texts(fks), "\n", 1))
             \o Texts(table_texts)
             \o optional_statement(indexes),
             "\n\n", 1))

\* get_db_sql, lines 173-220, from the rendered parts: the first exception
\* raised while rendering, or the statements joined
db_sql(drops, creates, table_texts, fks, indexes) ==
    IF FirstError(drops \o creates \o table_texts \o fks, 1) # NoError
    THEN [err |-> FirstError(drops \o creates \o table_texts \o fks, 1),
          text |-> <<>>]
    ELSE Text(Join(
             << Join(Texts(drops), "\n", 1), Join(Texts(creates), "\n", 1) >>
             \o Texts(table_texts)
             \o optional_statement(Join(Texts(fks), "\n", 1))
             \o optional_statement(indexes),
             "\n\n", 1))

\* get_db_sql() of PostgreSqlBuilder(schema, **cfg); `schemas` is the order in
\* which the set of schema names is iterated
get_db_sql(b, cfg, schema, schemas) ==
    db_sql([k \in 1..Len(schemas) |-> get_drop_schema_sql(schemas[k])],
           [k \in 1..Len(schemas) |-> get_create_schema_sql(schemas[k])],
           table_statements(b, cfg, schema, 1),
           [k \in 1..Len(schema.foreign_keys) |->
               get_foreign_key_sql(b, b.foreign_keys[schema.foreign_keys[k]])],
           Join([k \in 1..Len(schema.indexes) |->
                    get_index_sql(b, schema.indexes[k])], "\n", 1))

\* ------------------------------------------------------------ the documents

\* an attribute value: a YAML string, or a native YAML list
Str(s) == [list |-> FALSE, s |-> s]

List(s) == [list |-> TRUE, s |-> s]

\* The table entries documents are made of, each a (key, body) pair of the
\* mapping yaml.safe_load returns; a body is the sequence of its
\* (attribute name, attribute value) pairs in document order.
\*   role:        {id: pk uuid}
\*   public.role: {id: pk int, member_id: uq fk member?}
\*   auth.user:   {id: pk uuid, role_id: "fk role? -- the role"}
\*   acct:        {parent_id: fk acct?, id: pk fk role!}
\*   member:      {id: pk int, role_id: fk role, user_id: fk auth.user,
\*                 $uq: [role_id, user_id]}
\*   audit:       {id: pk int, code: pk int = 0, at: "text := now",
\*                 seq: "citext :="}
\*   tag:         {id: pk int, $pk_1: [id, name], name: varchar(10),
\*                 parent_id: uq! fk tag?, $check: id > 0}
\*   log:         {role_id: fk role, level: "?? int"}
\*   stock:       {$pk: [sku, bin], sku: str, bin: "numeric(10, 2)?",
\*                 acct_id: fk acct?}
\*   pair:        {a: int, $uq_ab: "(a, b)", b: int}
Entries ==
    << << <<"role">>,
          << << <<"id">>, Str(<<"pk", " ", "uuid">>) >> >> >>,
       << <<"public", ".", "role">>,
          << << <<"id">>, Str(<<"pk", " ", "int">>) >>,
             << <<"member_id">>,
                Str(<<"uq", " ", "fk", " ", "member", "?">>) >> >> >>,
       << <<"auth", ".", "user">>,
          << << <<"id">>, Str(<<"pk", " ", "uuid">>) >>,
             << <<"role_id">>,
                Str(<<"fk", " ", "role", "?", " ", "--", " ", "the role">>) >> >> >>,
       << <<"acct">>,
          << << <<"parent_id">>, Str(<<"fk", " ", "acct", "?">>) >>,
             << <<"id">>, Str(<<"pk", " ", "fk", " ", "role", "!">>) >> >> >>,
       << <<"member">>,
          << << <<"id">>, Str(<<"pk", " ", "int">>) >>,
             << <<"role_id">>, Str(<<"fk", " ", "role">>) >>,
             << <<"user_id">>, Str(<<"fk", " ", "auth", ".", "user">>) >>,
             << <<"$", "uq">>, List(<<"role_id", "user_id">>) >> >> >>,
       << <<"audit">>,
          << << <<"id">>, Str(<<"pk", " ", "int">>) >>,
             << <<"code">>, Str(<<"pk", " ", "int", " ", "=", " ", "0">>) >>,
             << <<"at">>, Str(<<"text", " ", ":", "=", " ", "now">>) >>,
             << <<"seq">>, Str(<<"citext", " ", ":", "=">>) >> >> >>,
       << <<"tag">>,
          << << <<"id">>, Str(<<"pk", " ", "int">>) >>,
             << <<"$", "pk", "_1">>, List(<<"id", "name">>) >>,
             << <<"name">>, Str(<<"varchar", "(", "10", ")">>) >>,
             << <<"parent_id">>,
                Str(<<"uq", "!", " ", "fk", " ", "tag", "?">>) >>,
             << <<"$", "check">>, Str(<<"id", " ", ">", " ", "0">>) >> >> >>,
       << <<"log">>,
          << << <<"role_id">>, Str(<<"fk", " ", "role">>) >>,
             << <<"level">>, Str(<<"?", "?", " ", "int">>) >> >> >>,
       << <<"stock">>,
          << << <<"$", "pk">>, List(<<"sku", "bin">>) >>,
             << <<"sku">>, Str(<<"str">>) >>,
             << <<"bin">>,
                Str(<<"numeric", "(", "10", ",", " ", "2", ")", "?">>) >>,
             << <<"acct_id">>, Str(<<"fk", " ", "acct", "?">>) >> >> >>,
       << <<"pair">>,
          << << <<"a">>, Str(<<"int">>) >>,
             << <<"$", "uq", "_ab">>, Str(<<"(", "a", ",", " ", "b", ")">>) >>,
             << <<"b">>, Str(<<"int">>) >> >> >> >>

\* Entries in one document.
MaxDocLen == 3

\* the documents: mappings of 1..MaxDocLen entries with distinct keys, each
\* given by the numbers of its entries in document order
Documents ==
    { d \in UNION { [1..n -> 1..Len(Entries)] : n \in 1..MaxDocLen } :
        \A i, j \in 1..Len(d) : i # j => d[i] # d[j] }

\* yaml.safe_load(pl_schema)
safe_load(d) == [k \in 1..Len(d) |-> Entries[d[k]]]

\* ----------------------------------------------------------------- the state

VARIABLES
    add_fk_indexes,  \* self._add_fk_indexes
    heap,            \* every Table object built so far
    tables,          \* self._tables: heap ids
    foreign_keys,    \* self._foreign_keys: ForeignKey objects
    indexes,         \* self._indexes: Index objects
    db_schema,       \* the DbSchema the last successful finalize returned
    outcome,         \* the last call: what it was, what it returned or raised
    n_finalize,      \* the number of calls of _resolve_foreign_keys so far
    link_writes      \* per foreign key, how often fk.referenced_table was assigned

vars == <<add_fk_indexes, heap, tables, foreign_keys, indexes, db_schema,
          outcome, n_finalize, link_writes>>

\* the builder's accumulated state as one value
Builder ==
    [heap |-> heap, tables |-> tables, foreign_keys |-> foreign_keys,
     indexes |-> indexes]

NoSchema == [some |-> FALSE, foreign_keys |-> <<>>, indexes |-> <<>>, tables |-> <<>>]

Outcome(op, arg, err, value) == [op |-> op, arg |-> arg, err |-> err, value |-> value]

\* DatabaseSchemaBuilder(add_fk_indexes)
Init ==
    /\ add_fk_indexes \in BOOLEAN
    /\ heap = <<>>
    /\ tables = <<>>
    /\ foreign_keys = <<>>
    /\ indexes = <<>>
    /\ db_schema = NoSchema
    /\ outcome = Outcome("init", <<>>, NoError, <<>>)
    /\ n_finalize = 0
    /\ link_writes = <<>>

\* the state a call leaves in the builder
Store(b) ==
    /\ heap' = b.heap
    /\ tables' = b.tables
    /\ foreign_keys' = b.foreign_keys
    /\ indexes' = b.indexes

\* link_writes after a call that left n foreign keys and assigned the link of
\* the first `done` of them
Written(n, done) ==
    [i \in 1..n |->
        (IF i <= Len(link_writes) THEN link_writes[i] ELSE 0)
        + (IF i <= done THEN 1 ELSE 0)]

\* the state after a partial_load that ended as r
Loaded(r) ==
    /\ Store(r.b)
    /\ link_writes' = Written(Len(r.b.foreign_keys), 0)
    /\ outcome' = Outcome("partial_load", <<>>, r.err, <<>>)
    /\ UNCHANGED <<add_fk_indexes, db_schema, n_finalize>>

\* partial_load(pl_schema)
partial_load(d) ==
    /\ Len(heap) + Len(d) <= MaxTables
    /\ Loaded(parse_schema(Builder, add_fk_indexes, safe_load(d), 1))

\* DbSchema(foreign_keys=list(self._foreign_keys), indexes=self._indexes,
\*          tables=list(self._tables))
DbSchema(b) ==
    [some |-> TRUE,
     foreign_keys |-> [k \in 1..Len(b.foreign_keys) |-> k],
     indexes |-> b.indexes,
     tables |-> b.tables]

\* the state after a finalize whose _resolve_foreign_keys ended as r
Finalized(r) ==
    /\ Store(r.b)
    /\ link_writes' = Written(Len(r.b.foreign_keys), r.done)
    /\ db_schema' = IF r.err = NoError THEN DbSchema(r.b) ELSE db_schema
    /\ outcome' = Outcome("finalize", <<>>, r.err, <<>>)
    /\ n_finalize' = n_finalize + 1
    /\ UNCHANGED add_fk_indexes

\* finalize()
finalize ==
    /\ n_finalize < MaxFinalize
    /\ Finalized(resolve_foreign_keys(Builder, 1))

\* load, p being the result of its partial_load
LoadedThenFinalized(p) ==
    IF p.err # NoError THEN Loaded(p)
    ELSE Finalized(resolve_foreign_keys(p.b, 1))

\* load(pl_schema): partial_load, then finalize unless partial_load raised;
\* the outcome is that of the call that ended it
load(d) ==
    /\ Len(heap) + Len(d) <= MaxTables
    /\ n_finalize < MaxFinalize
    /\ LoadedThenFinalized(parse_schema(Builder, add_fk_indexes, safe_load(d), 1))

\* set(table.pg_schema for table in self._tables)
SchemaNames(schema) ==
    { heap[schema.tables[k]].pg_schema : k \in 1..Len(schema.tables) }

\* the orders in which a set may be iterated
Orders(S) ==
    { o \in [1..Cardinality(S) -> S] :
        \A i, j \in 1..Cardinality(S) : i # j => o[i] # o[j] }

\* the state after a call that reads only and ended as `out`
Read(out) ==
    /\ outcome' = out
    /\ UNCHANGED <<add_fk_indexes, heap, tables, foreign_keys, indexes, db_schema,
                   n_finalize, link_writes>>

\* the outcome of a get_db_sql that ended as r
Emitted(cfg, r) == Outcome("get_db_sql", cfg, r.err, r.text)

\* PostgreSqlBuilder(db_schema, **cfg).get_db_sql(), the set of schema names
\* being iterated in the order `schemas`
emit(cfg, schemas) ==
    /\ db_schema.some
    /\ Read(Emitted(cfg, get_db_sql(Builder, cfg, db_schema, schemas)))

\* the outcome of a get_connections(table) that ended as r
Connected(table, r) ==
    Outcome("get_connections", table,
            IF r.ok THEN NoError ELSE [kind |-> "list.remove", args |-> <<>>],
            r.connections)

\* get_connections(table) for a Table the builder holds
connections(t) ==
    Read(Connected(tables[t], get_connections(Builder, tables[t])))

Next ==
    \/ \E d \in Documents : partial_load(d)
    \/ finalize
    \/ \E d \in Documents : load(d)
    \/ \E cfg \in EmitterConfigs :
           \E schemas \in Orders(SchemaNames(db_schema)) : emit(cfg, schemas)
    \/ \E t \in 1..Len(tables) : connections(t)

Spec == Init /\ [][Next]_vars

\* ------------------------------------------------------------ the properties

\* the accumulated foreign keys, by number (creation order)
ForeignKeys == 1..Len(foreign_keys)

\* the Field that backs the k-th foreign key
BackingField(k) ==
    heap[foreign_keys[k].containing_table].fields[foreign_keys[k].field]

\* the k-th foreign key has a target link
Resolved(k) == foreign_keys[k].referenced_table # 0

\* the fields of t with primary-key uniqueness, by index
PkFields(t) ==
    { i \in 1..Len(t.fields) : t.fields[i].uniqueness = "PRIMARY_KEY" }

\* t declares a composite primary-key rule
HasCompositePk(t) ==
    \E c \in 1..Len(t.complex_uniqueness) :
        t.complex_uniqueness[c].uniqueness = "PRIMARY_KEY"

\* t can be referenced: exactly one primary-key field, no composite pk rule
Referable(t) == Cardinality(PkFields(t)) = 1 /\ ~HasCompositePk(t)

\* the positions in self._tables of the tables with the identity the k-th
\* foreign key names
Defining(k) ==
    { i \in 1..Len(tables) :
        /\ heap[tables[i]].pg_schema = foreign_keys[k].referenced_schema
        /\ heap[tables[i]].name = foreign_keys[k].referenced_name }

\* the first-loaded table with that identity, 0 if there is none
FirstDefining(k) ==
    IF Defining(k) = {} THEN 0
    ELSE tables[CHOOSE i \in Defining(k) : \A j \in Defining(k) : i <= j]

\* the k-th foreign key can be resolved
Resolvable(k) == FirstDefining(k) # 0 /\ Referable(heap[FirstDefining(k)])

\* the error for the k-th foreign key's missing target
MissingTarget(k) ==
    ValueError("unresolved foreign key",
               << full_name(heap[foreign_keys[k].containing_table]),
                  << foreign_keys[k].referenced_schema, ".",
                     foreign_keys[k].referenced_name >> >>)

\* the state right after the first finalize of a builder
AfterFirstFinalize == n_finalize = 1 /\ outcome.op = "finalize"

\* C3: get_reference_pk returns a field if and only if exactly one field of
\* the Table has primary-key uniqueness and the Table has no composite
\* primary-key rule; the field returned is that primary-key field; in every
\* other case it raises.
C3_ReferencePk ==
    \A h \in 1..Len(heap) :
        /\ get_reference_pk(heap[h]).ok <=> Referable(heap[h])
        /\ get_reference_pk(heap[h]).ok =>
              /\ get_reference_pk(heap[h]).pk \in PkFields(heap[h])
              /\ get_reference_pk(heap[h]).err = NoError
        /\ ~get_reference_pk(heap[h]).ok =>
              get_reference_pk(heap[h]).err # NoError

\* C3, its cases met: a finalize raised from get_reference_pk of a Table with
\* one primary-key field and a composite primary-key rule, next to a Table
\* for which it returns and a Table with two primary-key fields or none
C3_Witness ==
    /\ outcome.op = "finalize"
    /\ outcome.err.kind = "more than one pk"
    /\ \E h \in 1..Len(heap) : get_reference_pk(heap[h]).ok
    /\ \E h \in 1..Len(heap) :
           Cardinality(PkFields(heap[h])) = 1 /\ HasCompositePk(heap[h])
    /\ \E h \in 1..Len(heap) : Cardinality(PkFields(heap[h])) # 1

\* C1 as stated: after partial_loads and one finalize, every foreign key
\* whose target identity is defined by a loaded table with exactly one
\* primary-key field is resolved; partial_load never fails for a missing
\* target; and if a target is defined by no loaded table, finalize raised
\* the error naming the referencing table and the missing target.
C1_AsStated ==
    /\ outcome.op = "partial_load" => outcome.err.kind # "unresolved foreign key"
    /\ AfterFirstFinalize =>
          /\ \A k \in ForeignKeys :
                (\E i \in Defining(k) : Cardinality(PkFields(heap[tables[i]])) = 1)
                    => Resolved(k)
          /\ (\E k \in ForeignKeys : Defining(k) = {}) =>
                \E k \in ForeignKeys : Defining(k) = {} /\ outcome.err = MissingTarget(k)

\* C1, amended: partial_load never fails for a missing target; the first
\* finalize returns if and only if every foreign key's target identity is
\* defined and the first-loaded table with that identity has exactly one
\* primary-key field and no composite primary-key rule; a foreign key is
\* resolved, to that table, when this holds for it and for every foreign key
\* created before it, wherever its target was loaded; and when the first
\* foreign key for which it fails has no table with its target identity,
\* finalize raises the error naming the referencing table and the target.
C1_ForwardReferences ==
    /\ outcome.op = "partial_load" => outcome.err.kind # "unresolved foreign key"
    /\ AfterFirstFinalize =>
          /\ outcome.err = NoError <=> \A k \in ForeignKeys : Resolvable(k)
          /\ \A k \in ForeignKeys :
                (\A j \in 1..k : Resolvable(j)) =>
                    foreign_keys[k].referenced_table = FirstDefining(k)
          /\ \A k \in ForeignKeys :
                ((\A j \in 1..(k - 1) : Resolvable(j)) /\ Defining(k) = {}) =>
                    outcome.err = MissingTarget(k)

\* C1, a forward reference resolved: after the first finalize, which
\* returned, a foreign key links a table loaded later than the table that
\* contains it
C1_Witness ==
    /\ AfterFirstFinalize
    /\ outcome.err = NoError
    /\ \E k \in ForeignKeys :
           /\ Resolved(k)
           /\ foreign_keys[k].containing_table < foreign_keys[k].referenced_table

\* C2: the Field backing a foreign key has an empty type in every state
\* before finalize, and after a finalize that returned its type is the type
\* of the single primary-key Field of the referenced Table.
C2_FieldTypePropagation ==
    /\ n_finalize = 0 => \A k \in ForeignKeys : BackingField(k).type = <<>>
    /\ (outcome.op = "finalize" /\ outcome.err = NoError) =>
          \A k \in ForeignKeys :
              /\ Resolved(k)
              /\ Cardinality(PkFields(heap[foreign_keys[k].referenced_table])) = 1
              /\ \A i \in PkFields(heap[foreign_keys[k].referenced_table]) :
                     BackingField(k).type =
                         heap[foreign_keys[k].referenced_table].fields[i].type

\* the elements of a sequence
Range(xs) == { xs[i] : i \in 1..Len(xs) }

\* a finalized schema: the last finalize returned the accumulated tables and
\* foreign keys, all resolved
FinalizedSchema ==
    /\ db_schema.some
    /\ db_schema.tables = tables
    /\ Len(db_schema.foreign_keys) = Len(foreign_keys)
    /\ \A k \in ForeignKeys : Resolved(k)

\* the foreign keys the Table j contains
Contained(j) == { k \in ForeignKeys : foreign_keys[k].containing_table = j }

\* the foreign keys for which the Table j compares equal to the containing
\* or to the referenced Table
Touching(j) ==
    { k \in ForeignKeys :
        \/ heap[foreign_keys[k].containing_table] = heap[j]
        \/ Resolved(k) /\ heap[foreign_keys[k].referenced_table] = heap[j] }

\* j contains exactly two foreign keys, both not optional and not unique at
\* field level, one referencing a and one referencing bb
Junction(j, a, bb) ==
    /\ heap[a] # heap[bb]
    /\ Cardinality(Contained(j)) = 2
    /\ \A k \in Contained(j) :
           BackingField(k).uniqueness = "NOT_UNIQUE" /\ ~BackingField(k).is_optional
    /\ \E k \in Contained(j) : foreign_keys[k].referenced_table = a
    /\ \E k \in Contained(j) : foreign_keys[k].referenced_table = bb

\* C4 as stated: in a finalized schema, for a table J with exactly two
\* foreign keys, both not optional and not unique, to A and to B,
\* get_connections(A) has the entry ('><', B, J).
C4_AsStated ==
    FinalizedSchema =>
        \A j, a, bb \in Range(tables) :
            Junction(j, a, bb) =>
                <<"><", bb, j>> \in Range(get_connections(Builder, a).connections)

\* C4, amended: in a finalized schema, for a table J that contains exactly
\* two foreign keys, both not optional and not unique, to A and to B, and
\* that no other foreign key touches (none references J), get_connections(A)
\* has the entry ('><', B, J) and no ('-<', J, None) entry, with or without a
\* composite rule on J.
C4_ManyToMany ==
    FinalizedSchema =>
        \A j, a, bb \in Range(tables) :
            (Junction(j, a, bb) /\ Cardinality(Touching(j)) = 2) =>
                /\ get_connections(Builder, a).ok
                /\ <<"><", bb, j>> \in Range(get_connections(Builder, a).connections)
                /\ <<"-<", j, 0>> \notin Range(get_connections(Builder, a).connections)

\* C4, a junction classified: get_connections(A) of a finalized schema
\* returned ('><', B, J) for a junction J that declares a composite rule
C4_Witness ==
    /\ FinalizedSchema
    /\ outcome.op = "get_connections"
    /\ \E j, bb \in Range(tables) :
           /\ Junction(j, outcome.arg, bb)
           /\ Cardinality(Touching(j)) = 2
           /\ heap[j].complex_uniqueness # <<>>
           /\ <<"><", bb, j>> \in Range(outcome.value)

\* C5: two invocations of get_db_sql with one configuration over the same
\* Model return the same text.
C5_Deterministic ==
    [][(/\ outcome.op = "get_db_sql"
        /\ outcome'.op = "get_db_sql"
        /\ outcome'.arg = outcome.arg)
       => (outcome'.value = outcome.value /\ outcome'.err = outcome.err)]_vars

\* the positions of the atom kw in a text
Positions(text, kw) == { i \in 1..Len(text) : text[i] = kw }

\* every position of the atom kw1 precedes every position of the atom kw2
Precede(text, kw1, kw2) ==
    \A p \in Positions(text, kw1) : \A q \in Positions(text, kw2) : p < q

\* how many positions of S are at or before p
Rank(S, p) == Cardinality({ q \in S : q <= p })

\* C6: in the text get_db_sql returns, every DROP SCHEMA precedes every
\* CREATE SCHEMA, which precede every CREATE TABLE; the CREATE TABLE
\* statements are those of the tables in load order; a COMMENT ON COLUMN
\* statement follows the CREATE TABLE of its own table and precedes the
\* next; the ALTER TABLE statements follow all tables and comments, in
\* foreign-key creation order; every CREATE INDEX follows all of them.
C6_GroupOrder ==
    (outcome.op = "get_db_sql" /\ outcome.err = NoError) =>
        /\ Precede(outcome.value, "DROP SCHEMA IF EXISTS ", "CREATE SCHEMA ")
        /\ Precede(outcome.value, "CREATE SCHEMA ", "CREATE TABLE ")
        /\ Precede(outcome.value, "CREATE SCHEMA ", "COMMENT ON COLUMN ")
        /\ Precede(outcome.value, "CREATE TABLE ", "ALTER TABLE ")
        /\ Precede(outcome.value, "COMMENT ON COLUMN ", "ALTER TABLE ")
        /\ Precede(outcome.value, "CREATE TABLE ", "CREATE INDEX ON ")
        /\ Precede(outcome.value, "COMMENT ON COLUMN ", "CREATE INDEX ON ")
        /\ Precede(outcome.value, "ALTER TABLE ", "CREATE INDEX ON ")
        /\ Cardinality(Positions(outcome.value, "CREATE TABLE ")) = Len(db_schema.tables)
        /\ \A p \in Positions(outcome.value, "CREATE TABLE ") :
               SubSeq(outcome.value, p + 1, p + 3) =
                   full_name(heap[db_schema.tables[
                       Rank(Positions(outcome.value, "CREATE TABLE "), p)]])
        /\ \A p \in Positions(outcome.value, "COMMENT ON COLUMN ") :
               /\ Rank(Positions(outcome.value, "CREATE TABLE "), p) >= 1
               /\ SubSeq(outcome.value, p + 1, p + 3) =
                      full_name(heap[db_schema.tables[
                          Rank(Positions(outcome.value, "CREATE TABLE "), p)]])
               /\ \E f \in Range(heap[db_schema.tables[
                          Rank(Positions(outcome.value, "CREATE TABLE "), p)]].fields) :
                      Truthy(f.comment) /\ f.name = <<outcome.value[p + 5]>>
        /\ Cardinality(Positions(outcome.value, "ALTER TABLE ")) =
               Len(db_schema.foreign_keys)
        /\ \A p \in Positions(outcome.value, "ALTER TABLE ") :
               /\ SubSeq(outcome.value, p + 1, p + 3) =
                      full_name(heap[foreign_keys[db_schema.foreign_keys[
                          Rank(Positions(outcome.value, "ALTER TABLE "), p)]].containing_table])
               /\ <<outcome.value[p + 10]>> =
                      BackingField(db_schema.foreign_keys[
                          Rank(Positions(outcome.value, "ALTER TABLE "), p)]).name

\* C6, every group present: get_db_sql returned a text with schemas, at
\* least two tables, a comment, at least two foreign keys and an index
C6_Witness ==
    /\ outcome.op = "get_db_sql"
    /\ outcome.err = NoError
    /\ Cardinality(Positions(outcome.value, "DROP SCHEMA IF EXISTS ")) >= 2
    /\ Cardinality(Positions(outcome.value, "CREATE TABLE ")) >= 2
    /\ Positions(outcome.value, "COMMENT ON COLUMN ") # {}
    /\ Cardinality(Positions(outcome.value, "ALTER TABLE ")) >= 2
    /\ Positions(outcome.value, "CREATE INDEX ON ") # {}

\* C7: before any finalize no foreign key has a target link or a field
\* type, and over the lifetime of a builder the target link of each foreign
\* key is written at most once, and exactly once when it is set.
C7_ResolvedOnce ==
    /\ n_finalize = 0 =>
          \A k \in ForeignKeys : ~Resolved(k) /\ BackingField(k).type = <<>>
    /\ \A k \in ForeignKeys :
          /\ link_writes[k] <= 1
          /\ Resolved(k) <=> link_writes[k] = 1

\* C8: whenever get_connections or get_db_sql has read the foreign keys,
\* they were not partially resolved: all of them had a target link, or none.
C8_NoPartialModel ==
    outcome.op \in {"get_connections", "get_db_sql"} =>
        \/ \A k \in ForeignKeys : Resolved(k)
        \/ \A k \in ForeignKeys : ~Resolved(k)

\* C9: neither the accumulated tables nor the tables of the DbSchema that
\* finalize returned hold two Tables with the same (schema, name).
C9_UniqueIdentity ==
    /\ \A i, j \in 1..Len(tables) :
          i # j => full_name(heap[tables[i]]) # full_name(heap[tables[j]])
    /\ \A i, j \in 1..Len(db_schema.tables) :
          i # j => full_name(heap[db_schema.tables[i]])
                       # full_name(heap[db_schema.tables[j]])

\* a Table with more than one primary-key field, or with a primary-key field
\* and a composite primary-key rule
Malformed(t) ==
    \/ Cardinality(PkFields(t)) > 1
    \/ PkFields(t) # {} /\ HasCompositePk(t)

\* C10: a get_db_sql over a Model that holds a Table with more than one
\* primary-key field, or with a primary-key field and a composite
\* primary-key rule, raises and returns no text.
C10_MalformedRejected ==
    (/\ outcome.op = "get_db_sql"
     /\ \E t \in Range(db_schema.tables) : Malformed(heap[t]))
    => (outcome.err # NoError /\ outcome.value = <<>>)

\* DatabaseSchemaBuilder(add_fk_indexes) before any call
FreshBuilder == [heap |-> <<>>, tables |-> <<>>, foreign_keys |-> <<>>, indexes |-> <<>>]

\* load, p being the result of its partial_load: what the builder holds
\* afterwards and what the call raised
LoadResult(p) ==
    IF p.err # NoError THEN [b |-> p.b, err |-> p.err]
    ELSE [b |-> resolve_foreign_keys(p.b, 1).b,
          err |-> resolve_foreign_keys(p.b, 1).err]

\* load(d) on a fresh builder
LoadFresh(d) ==
    LoadResult(parse_schema(FreshBuilder, add_fk_indexes, safe_load(d), 1))

\* the documents with the table keys of d, in any order
KeyOrders(d) ==
    { e \in Documents : Len(e) = Len(d) /\ Range(e) = Range(d) }

\* the Tables a load left accumulated, as a set
TableSet(r) == { r.b.heap[r.b.tables[i]] : i \in 1..Len(r.b.tables) }

\* per foreign key a load left: the containing table, the field, the
\* resolved target and the propagated type
LinkSet(r) ==
    { << full_name(r.b.heap[r.b.foreign_keys[k].containing_table]),
         r.b.heap[r.b.foreign_keys[k].containing_table]
             .fields[r.b.foreign_keys[k].field].name,
         IF r.b.foreign_keys[k].referenced_table = 0 THEN <<>>
         ELSE full_name(r.b.heap[r.b.foreign_keys[k].referenced_table]),
         r.b.heap[r.b.foreign_keys[k].containing_table]
             .fields[r.b.foreign_keys[k].field].type >> :
      k \in 1..Len(r.b.foreign_keys) }

\* two loads with the same outcome: both raised, or both returned the same
\* Tables and, per foreign key, the same target and field type
SameResult(r1, r2) ==
    /\ (r1.err = NoError) <=> (r2.err = NoError)
    /\ r1.err = NoError => (TableSet(r1) = TableSet(r2) /\ LinkSet(r1) = LinkSet(r2))

\* the builder holds what load(d) leaves in a fresh builder
IsLoadOf(d) ==
    /\ n_finalize = 1
    /\ outcome.op = "finalize"
    /\ Len(d) = Len(heap)
    /\ \A i \in 1..Len(d) :
           heap[i].name = Entries[d[i]][1][Len(Entries[d[i]][1])]
    /\ heap = LoadFresh(d).b.heap
    /\ tables = LoadFresh(d).b.tables
    /\ foreign_keys = LoadFresh(d).b.foreign_keys

\* C11: the order of the table keys of a document does not affect the
\* result of load: with the keys in any other order load raises if and only
\* if it raised, and when it returns the Tables and, per foreign key, the
\* resolved target and the propagated field type are the same.
C11_KeyOrderIndependent ==
    \A d \in Documents :
        IsLoadOf(d) => \A e \in KeyOrders(d) : SameResult(LoadFresh(d), LoadFresh(e))

\* the Table _parse_table builds from each entry alone
ParsedEntries ==
    [e \in 1..Len(Entries) |->
        parse_schema(FreshBuilder, FALSE, <<Entries[e]>>, 1).b.heap[1]]

\* the Table _parse_table builds from the e-th entry alone
ParsedAlone(e) == ParsedEntries[e]

\* the Table t is built from the e-th entry: the same identity, rules and
\* checks, and the fields of the entry as far as its parse got, a foreign
\* key's field apart from its type
BuiltFrom(t, e) ==
    /\ t.pg_schema = ParsedAlone(e).pg_schema
    /\ t.name = ParsedAlone(e).name
    /\ t.complex_uniqueness = ParsedAlone(e).complex_uniqueness
    /\ t.checks = ParsedAlone(e).checks
    /\ Len(t.fields) = Len(ParsedAlone(e).fields)
    /\ \A i \in 1..Len(t.fields) :
           \/ t.fields[i] = ParsedAlone(e).fields[i]
           \/ /\ ParsedAlone(e).fields[i].type = <<>>
              /\ [t.fields[i] EXCEPT !.type = <<>>] = ParsedAlone(e).fields[i]

\* the entry the h-th Table object was built from
SourceOf(h) == CHOOSE e \in 1..Len(Entries) : BuiltFrom(heap[h], e)

\* the attributes (name, value) of the e-th entry, in document order
Attributes(e) == Entries[e][2]

\* the j-th attribute's name is marker-prefixed (a rule or a check)
IsRuleAttr(e, j) == Attributes(e)[j][1][1] = "$"

\* how many of the first n attributes of the e-th entry are fields / rules
RECURSIVE FieldAttrs(_, _)
FieldAttrs(e, n) ==
    IF n = 0 THEN 0
    ELSE FieldAttrs(e, n - 1) + (IF IsRuleAttr(e, n) THEN 0 ELSE 1)

\* the parse of the h-th Table, built from the e-th entry, got past the
\* first n attributes: each of them appended its field, rule or check
ParsedPast(h, e, n) ==
    /\ Len(heap[h].fields) >= FieldAttrs(e, n)
    /\ Len(heap[h].complex_uniqueness) + Len(heap[h].checks) >= n - FieldAttrs(e, n)

\* the j-th attribute's name is a composite-uniqueness rule: the marker,
\* pk, uq or uq!, and at most a suffix
IsUniquenessRule(e, j) ==
    /\ Len(Attributes(e)[j][1]) >= 2
    /\ Attributes(e)[j][1][1] = "$"
    /\ Attributes(e)[j][1][2] \in {"pk", "uq"}

\* the uniqueness kind a rule name stands for
RuleKind(name) ==
    IF name[2] = "pk" THEN "PRIMARY_KEY"
    ELSE IF Len(name) >= 3 /\ name[3] = "!" THEN "STRICT_UNIQUE"
    ELSE "UNIQUE"

\* the field names a rule value lists: the items of a native list, or the
\* names between the commas of a string (f1, f2, ...)
RuleFields(value) ==
    IF value.list THEN value.s
    ELSE SelectSeq(value.s, LAMBDA a : a \notin Punct)

\* C12: a composite-uniqueness rule is accepted with its value as a native
\* list and as a string (f1, f2, ...): once the parse of a table has got to
\* the rule, the table holds the ComplexUniqueness with the listed field
\* names, in order, and the rule's kind.
C12_RuleValueForms ==
    \A h \in 1..Len(heap) :
        \A j \in 1..Len(Attributes(SourceOf(h))) :
            (IsUniquenessRule(SourceOf(h), j) /\ ParsedPast(h, SourceOf(h), j - 1)) =>
                \E c \in 1..Len(heap[h].complex_uniqueness) :
                    heap[h].complex_uniqueness[c] =
                        [fields |-> RuleFields(Attributes(SourceOf(h))[j][2]),
                         uniqueness |-> RuleKind(Attributes(SourceOf(h))[j][1])]

\* the value of an attribute without its comment: what precedes --,
\* stripped
Uncommented(s) ==
    IF Find(s, "--", 1) = 0 THEN s
    ELSE Strip(SubSeq(s, 1, Find(s, "--", 1) - 1))

\* the text s has the form [pk|uq|uq!] fk [schema.]table[?|!]
IsForeignKeyText(s) ==
    /\ Find(s, "fk", 1) # 0
    /\ SubSeq(s, 1, Find(s, "fk", 1) - 1)
           \in {<<>>, <<"pk", " ">>, <<"uq", " ">>, <<"uq", "!", " ">>}
    /\ SubSeq(s, Find(s, "fk", 1) + 1, Len(s))
           \in { <<" ">> \o schema \o <<t>> \o mark :
                   schema \in {<<>>} \cup { <<x, ".">> : x \in Range(s) \ Punct },
                   t \in Range(s) \ Punct,
                   mark \in {<<>>, <<"?">>, <<"!">>} }

\* the trailing marker of a foreign-key text: "?", "!" or "" for none
Marker(s) == IF s[Len(s)] \in {"?", "!"} THEN s[Len(s)] ELSE ""

\* the table a foreign-key text names
TargetName(s) == IF Marker(s) = "" THEN s[Len(s)] ELSE s[Len(s) - 1]

\* the schema a foreign-key text names, public when it has no prefix
TargetSchema(s) ==
    IF Find(s, ".", 1) = 0 THEN "public" ELSE s[Find(s, ".", 1) - 1]

\* the foreign keys created for the i-th Field of the h-th Table
KeysOf(h, i) ==
    { k \in ForeignKeys :
        foreign_keys[k].containing_table = h /\ foreign_keys[k].field = i }

\* what C13 says of the j-th attribute of the entry the h-th Table was
\* built from, whose value s is a foreign-key text and whose Field is the
\* i-th of the Table
ForeignKeyAsWritten(h, j, i, s) ==
    /\ heap[h].fields[i].name = Attributes(SourceOf(h))[j][1]
    /\ heap[h].fields[i].is_optional = (Marker(s) = "?")
    /\ ~heap[h].fields[i].is_computed
    /\ heap[h].fields[i].default = None
    /\ n_finalize = 0 => heap[h].fields[i].type = <<>>
    /\ Cardinality({ f \in 1..Len(heap[h].fields) :
                       heap[h].fields[f].name = Attributes(SourceOf(h))[j][1] }) = 1
    /\ Cardinality(KeysOf(h, i)) = 1
    /\ \A k \in KeysOf(h, i) :
           /\ foreign_keys[k].on_delete =
                  (CASE Marker(s) = "?" -> "SET_NULL"
                     [] Marker(s) = "!" -> "CASCADE"
                     [] OTHER -> "NO_ACTION")
           /\ foreign_keys[k].referenced_schema = TargetSchema(s)
           /\ foreign_keys[k].referenced_name = TargetName(s)

\* C13: for a foreign-key value [pk|uq|uq!] fk [schema.]table[?|!] exactly
\* one Field, with empty type, not computed and without default, and
\* exactly one ForeignKey are created; a trailing ? gives is_optional and
\* on-delete set-null, a trailing ! not optional and cascade, no marker not
\* optional and no-action; without a schema prefix the referenced schema is
\* public.
C13_ForeignKeyForms ==
    \A h \in 1..Len(heap) :
        \A j \in 1..Len(Attributes(SourceOf(h))) :
            (/\ ~IsRuleAttr(SourceOf(h), j)
             /\ ParsedPast(h, SourceOf(h), j)
             /\ IsForeignKeyText(Uncommented(Attributes(SourceOf(h))[j][2].s)))
            => ForeignKeyAsWritten(h, j, FieldAttrs(SourceOf(h), j),
                                   Uncommented(Attributes(SourceOf(h))[j][2].s))

\* C13, the forms met: before any finalize the builder holds foreign keys
\* written with ?, with ! and with no marker, one of them with a schema
\* prefix
C13_Witness ==
    /\ n_finalize = 0
    /\ \E k \in ForeignKeys : foreign_keys[k].on_delete = "SET_NULL"
    /\ \E k \in ForeignKeys : foreign_keys[k].on_delete = "CASCADE"
    /\ \E k \in ForeignKeys : foreign_keys[k].on_delete = "NO_ACTION"
    /\ \E k \in ForeignKeys : foreign_keys[k].referenced_schema = "auth"
    /\ \A h \in 1..Len(heap) : \A i \in 1..Len(heap[h].fields) :
           KeysOf(h, i) # {} =>
               \E j \in 1..Len(Attributes(SourceOf(h))) :
                   /\ FieldAttrs(SourceOf(h), j) = i
                   /\ ~IsRuleAttr(SourceOf(h), j)
                   /\ IsForeignKeyText(Uncommented(Attributes(SourceOf(h))[j][2].s))

\* the Index requests that the first n foreign keys call for: one for each
\* whose field is not unique, in creation order
RECURSIVE IndexesOf(_)
IndexesOf(n) ==
    IF n = 0 THEN <<>>
    ELSE IF BackingField(n).uniqueness = "NOT_UNIQUE"
         THEN Append(IndexesOf(n - 1),
                     [table |-> foreign_keys[n].containing_table,
                      field |-> BackingField(n).name])
         ELSE IndexesOf(n - 1)

\* C14: with index augmentation the Index list holds exactly one Index
\* (containing table, field name) for each foreign-key field that is not
\* unique, in foreign-key creation order, and nothing else; without
\* augmentation it is empty.
C14_ForeignKeyIndexes ==
    indexes = IF add_fk_indexes THEN IndexesOf(Len(foreign_keys)) ELSE <<>>

\* C14, the cases met: with augmentation, a unique and a not-unique
\* foreign-key field and a field that is no foreign key have been loaded
C14_Witness ==
    /\ add_fk_indexes
    /\ indexes # <<>>
    /\ \E k \in ForeignKeys : BackingField(k).uniqueness # "NOT_UNIQUE"
    /\ \E k \in ForeignKeys : BackingField(k).uniqueness = "NOT_UNIQUE"
    /\ \E h \in 1..Len(heap) : \E i \in 1..Len(heap[h].fields) : KeysOf(h, i) = {}

\* the last call was a get_db_sql that returned its text
Emission == outcome.op = "get_db_sql" /\ outcome.err = NoError

\* C15: the text get_db_sql returns has no empty group: it neither begins
\* nor ends with the blank-line separator and has no two separators in a
\* row; for the Model of a finalize on no tables it is the empty string.
C15_NoEmptyGroup ==
    Emission =>
        /\ db_schema.tables = <<>> => outcome.value = <<>>
        /\ outcome.value # <<>> =>
               /\ outcome.value[1] # "\n\n"
               /\ outcome.value[Len(outcome.value)] # "\n\n"
               /\ \A i \in 1..(Len(outcome.value) - 1) :
                      ~(outcome.value[i] = "\n\n" /\ outcome.value[i + 1] = "\n\n")

\* the keys of the type-restriction table an emitter was given
TypeKeys(cfg) ==
    IF cfg.restrict_types_table = "DEFAULT_TYPE_TABLE"
    THEN DOMAIN DEFAULT_TYPE_TABLE ELSE {}

\* the names of the fields of the Model whose base type is no key of the
\* table the emitter was given
UnkeyedFields(cfg) ==
    UNION { { heap[db_schema.tables[t]].fields[i].name :
                i \in { i \in 1..Len(heap[db_schema.tables[t]].fields) :
                          \/ heap[db_schema.tables[t]].fields[i].type = <<>>
                          \/ heap[db_schema.tables[t]].fields[i].type[1]
                                 \notin TypeKeys(cfg) } } :
            t \in 1..Len(db_schema.tables) }

\* C16: when a type-restriction table is supplied, be it one without
\* entries, a field whose base type is not a key of it makes get_db_sql
\* fail with an error naming the field, and no DDL is returned.
C16_TypeRestriction ==
    (/\ outcome.op = "get_db_sql"
     /\ outcome.arg.restrict_types_table # "None"
     /\ UnkeyedFields(outcome.arg) # {})
    => /\ outcome.err # NoError
       /\ outcome.value = <<>>
       /\ \E f \in UnkeyedFields(outcome.arg) : f \in Range(outcome.err.args)

\* the column clause has a DEFAULT clause / a GENERATED clause
HasDefault(clause) == "DEFAULT " \in Range(clause)

HasGenerated(clause) == "GENERATED ALWAYS AS (" \in Range(clause)

\* the expression written after the = of a simple field's text
Expression(s) == Strip(From(s, Find(s, "=", 1) + 1))

\* what C17 says of a simple field f written as the text s and rendered as
\* the column clause `clause`
ClauseAsWritten(f, s, clause) ==
    IF Find(s, "=", 1) = 0
    THEN ~HasDefault(clause) /\ ~HasGenerated(clause)
    ELSE IF s[Find(s, "=", 1) - 1] # ":"
    THEN /\ ~f.is_computed
         /\ ~HasGenerated(clause)
         /\ Len(clause) > Len(Expression(s))
         /\ SubSeq(clause, Len(clause) - Len(Expression(s)), Len(clause))
                = <<"DEFAULT ">> \o Expression(s)
    ELSE /\ f.is_computed
         /\ ~HasDefault(clause)
         /\ Len(clause) > Len(Expression(s)) + 1
         /\ SubSeq(clause, Len(clause) - Len(Expression(s)) - 1, Len(clause))
                = <<"GENERATED ALWAYS AS (">> \o Expression(s) \o <<") STORED">>

\* C17: in an emission, the column clause of a simple field written with
\* = expr has exactly a DEFAULT expr clause and the field is not computed;
\* written with := expr, an empty expr included, it has exactly a
\* GENERATED ALWAYS AS (expr) STORED clause and the field is computed;
\* written without = it has neither.
C17_DefaultOrGenerated ==
    Emission =>
        \A t \in 1..Len(db_schema.tables) :
            \A j \in 1..Len(Attributes(SourceOf(db_schema.tables[t]))) :
                (/\ ~IsRuleAttr(SourceOf(db_schema.tables[t]), j)
                 /\ ~IsForeignKeyText(Uncommented(
                        Attributes(SourceOf(db_schema.tables[t]))[j][2].s)))
                => ClauseAsWritten(
                       heap[db_schema.tables[t]].fields[
                           FieldAttrs(SourceOf(db_schema.tables[t]), j)],
                       Uncommented(Attributes(SourceOf(db_schema.tables[t]))[j][2].s),
                       get_field_sql(outcome.arg,
                           heap[db_schema.tables[t]].fields[
                               FieldAttrs(SourceOf(db_schema.tables[t]), j)]).text)

\* the Table whose parse the last call ended in
LastParsed == Len(heap)

\* the message of the error err has the word x in one of its parts
Names(err, x) == \E a \in Range(err.args) : x \in Range(a)

\* C18: the error for a bare-identifier attribute whose value matches
\* neither grammar is the unknown-attribute error, names the containing
\* table and the attribute, and no Field, ForeignKey or Index is created
\* for the attribute.
C18_UnknownAttribute ==
    (outcome.op \in {"partial_load", "load"}
        /\ outcome.err.kind = "unknown attribute definition")
    => /\ Names(outcome.err, heap[LastParsed].name)
       /\ \E j \in 1..Len(Attributes(SourceOf(LastParsed))) :
              /\ ~IsRuleAttr(SourceOf(LastParsed), j)
              /\ Attributes(SourceOf(LastParsed))[j][1] \in Range(outcome.err.args)
              /\ Len(heap[LastParsed].fields) = FieldAttrs(SourceOf(LastParsed), j - 1)
              /\ \A k \in ForeignKeys :
                     foreign_keys[k].containing_table = LastParsed
                         => foreign_keys[k].field < FieldAttrs(SourceOf(LastParsed), j)
              /\ \A x \in 1..Len(indexes) :
                     indexes[x].table = LastParsed
                         => indexes[x].field # Attributes(SourceOf(LastParsed))[j][1]

\* the code of the k-th foreign key evaluated with the anchor Table j
Code(k, j) ==
    (IF BackingField(k).uniqueness = "NOT_UNIQUE" THEN 4 ELSE 0)
    + (IF Resolved(k) /\ heap[foreign_keys[k].referenced_table] = heap[j]
       THEN 2 ELSE 0)
    + (IF BackingField(k).is_optional THEN 1 ELSE 0)

\* the symbols of the eight codes, in code order
Symbols == <<"o-", "oo", "-o", "oo", ">-", ">o", "-<", "o<">>

\* the other side of the k-th foreign key, seen from the anchor Table j
Other(k, j) ==
    IF heap[foreign_keys[k].containing_table] = heap[j]
    THEN foreign_keys[k].referenced_table
    ELSE foreign_keys[k].containing_table

\* exactly two foreign keys touch the Table j and each has code 4 with j as
\* the anchor
MidOfManyToMany(j) ==
    /\ Cardinality(Touching(j)) = 2
    /\ \A k \in Touching(j) : Code(k, j) = 4

\* the k-th foreign key, seen from the anchor j, is collapsed into a
\* many-to-many connection
Collapsed(k, j) == Code(k, j) = 6 /\ MidOfManyToMany(Other(k, j))

\* C19: get_connections(T) returns, for every resolved foreign key that
\* touches T and is not collapsed into many-to-many, the symbol at index
\* code of (o-, oo, -o, oo, >-, >o, -<, o<), code being 4*(field not
\* unique) + 2*(T is the referenced table) + 1*(field optional); a
\* collapsed one gives ><, whose value 8 is above all codes, so that the ><
\* entries are the last.
C19_ConnectionSymbols ==
    (outcome.op = "get_connections" /\ outcome.err = NoError) =>
        /\ Len(outcome.value) = Cardinality(Touching(outcome.arg))
        /\ \A k \in Touching(outcome.arg) :
               Resolved(k) =>
                   IF Collapsed(k, outcome.arg)
                   THEN \E i \in 1..Len(outcome.value) :
                            /\ outcome.value[i][1] = "><"
                            /\ outcome.value[i][3] = Other(k, outcome.arg)
                   ELSE <<Symbols[Code(k, outcome.arg) + 1], Other(k, outcome.arg), 0>>
                            \in Range(outcome.value)
        /\ MANY_TO_MANY = 8
        /\ CONNECTION_ORDER_TO_SYMBOL(MANY_TO_MANY) = "><"
        /\ \A i, n \in 1..Len(outcome.value) :
               (outcome.value[i][1] = "><" /\ outcome.value[n][1] # "><") => n < i

\* C19, the cases met: get_connections returned a >< entry and the entry
\* of an optional foreign key that references the anchor
C19_Witness ==
    /\ outcome.op = "get_connections"
    /\ outcome.err = NoError
    /\ \E i \in 1..Len(outcome.value) : outcome.value[i][1] = "><"
    /\ \E k \in Touching(outcome.arg) :
           /\ Resolved(k)
           /\ Code(k, outcome.arg) = 7
           /\ <<"o<", Other(k, outcome.arg), 0>> \in Range(outcome.value)

\* the first and the last of a set of foreign keys, in creation order
FirstOf(S) == CHOOSE k \in S : \A m \in S : k <= m

LastOf(S) == CHOOSE k \in S : \A m \in S : m <= k

\* C20: for every table J of a resolved schema, _is_mid_in_m2m(J) returns
\* a pair if and only if exactly two foreign keys touch J, contained or
\* referencing, and each has code 4 with J as the anchor; the pair is the
\* two foreign keys' referenced tables in foreign-key order; the composite
\* rules of J play no part.
C20_MidInManyToMany ==
    FinalizedSchema =>
        \A j \in Range(tables) :
            /\ is_mid_in_m2m(Builder, j).some = MidOfManyToMany(j)
            /\ MidOfManyToMany(j) =>
                   is_mid_in_m2m(Builder, j).tables =
                       <<foreign_keys[FirstOf(Touching(j))].referenced_table,
                         foreign_keys[LastOf(Touching(j))].referenced_table>>
            /\ ~MidOfManyToMany(j) => is_mid_in_m2m(Builder, j).tables = <<>>

\* C20, the case of a third foreign key met: get_connections of a resolved
\* schema asked _is_mid_in_m2m about a table J that contains two foreign
\* keys of code 4, declares a composite rule and is referenced by a third
\* foreign key, and returned the plain one-to-many entry for J
C20_Witness ==
    /\ FinalizedSchema
    /\ outcome.op = "get_connections"
    /\ outcome.err = NoError
    /\ \E j \in Range(tables) :
           /\ Cardinality(Touching(j)) = 3
           /\ Cardinality({ k \in Contained(j) : Code(k, j) = 4 }) = 2
           /\ heap[j].complex_uniqueness # <<>>
           /\ <<"-<", j, 0>> \in Range(outcome.value)

\* the k-th foreign key is self-referencing for the anchor Table j: j
\* compares equal to its containing and to its referenced Table
SelfReferencing(k, j) ==
    /\ heap[foreign_keys[k].containing_table] = heap[j]
    /\ Resolved(k)
    /\ heap[foreign_keys[k].referenced_table] = heap[j]

\* the endpoints of the junction m: the referenced tables of the two
\* foreign keys that touch it, in foreign-key order
Endpoints(m) ==
    <<foreign_keys[FirstOf(Touching(m))].referenced_table,
      foreign_keys[LastOf(Touching(m))].referenced_table>>

\* the endpoint of the junction m that is left when the anchor j is taken
\* out of the pair
OtherEndpoint(m, j) ==
    IF heap[Endpoints(m)[1]] = heap[j] THEN Endpoints(m)[2] ELSE Endpoints(m)[1]

\* the entry get_connections(j) is to hold for the k-th foreign key
EntryOf(k, j) ==
    IF Collapsed(k, j)
    THEN <<"><", OtherEndpoint(Other(k, j), j), Other(k, j)>>
    ELSE <<Symbols[Code(k, j) + 1], Other(k, j), 0>>

\* C21: on a resolved schema get_connections(T) returns without raising,
\* with exactly one entry for each foreign key that touches T and no other
\* entry; a self-referencing foreign key gives one entry whose related
\* table is T; for an edge collapsed to many-to-many T is one of the two
\* endpoints of the junction and the entry holds the one other endpoint.
C21_OneEntryPerForeignKey ==
    (FinalizedSchema /\ outcome.op = "get_connections") =>
        /\ outcome.err = NoError
        /\ Len(outcome.value) = Cardinality(Touching(outcome.arg))
        /\ \A e \in Range(outcome.value)
                   \cup { EntryOf(k, outcome.arg) : k \in Touching(outcome.arg) } :
               Cardinality({ i \in 1..Len(outcome.value) : outcome.value[i] = e })
                   = Cardinality({ k \in Touching(outcome.arg) :
                                     EntryOf(k, outcome.arg) = e })
        /\ \A k \in Touching(outcome.arg) :
               /\ SelfReferencing(k, outcome.arg) =>
                      /\ ~Collapsed(k, outcome.arg)
                      /\ heap[Other(k, outcome.arg)] = heap[outcome.arg]
               /\ Collapsed(k, outcome.arg) =>
                      \E p \in 1..2 :
                          heap[Endpoints(Other(k, outcome.arg))[p]] = heap[outcome.arg]

\* C21, a collapse met: get_connections(T) of a resolved schema returned a
\* many-to-many entry for a junction of which T is the second endpoint, the
\* related table being the first
C21_Witness ==
    /\ FinalizedSchema
    /\ outcome.op = "get_connections"
    /\ \E k \in Touching(outcome.arg) :
           /\ Collapsed(k, outcome.arg)
           /\ heap[Endpoints(Other(k, outcome.arg))[1]] # heap[outcome.arg]
           /\ heap[Endpoints(Other(k, outcome.arg))[2]] = heap[outcome.arg]
           /\ <<"><", Endpoints(Other(k, outcome.arg))[1], Other(k, outcome.arg)>>
                  \in Range(outcome.value)

\* C22: a partial_load that raises leaves the accumulated table list,
\* foreign-key list and index list as they were before the call, so that no
\* foreign key or index of a table rejected part-way, and no table of a
\* document that failed on a later key, remains.
C22_FailedLoadChangesNothing ==
    [][(outcome'.op = "partial_load" /\ outcome'.err # NoError)
       => /\ tables' = tables
          /\ foreign_keys' = foreign_keys
          /\ indexes' = indexes]_vars

=============================================================================
